---- MODULE Spec2Model ----
(***************************************************************************)
(* Model of perfetto's ProcessTracker                                      *)
(* (src/trace_processor/importers/common/process_tracker.cc).              *)
(*                                                                         *)
(* The tracker maps the recycled (tid, pid) ids of a trace onto dense      *)
(* UTIDs/UPIDs.  A UTID u is row u of the thread table, which is the       *)
(* element thread[u + 1] of the sequence below; likewise for UPIDs.        *)
(* An optional value is <<>> (nullopt) or <<x>>.                           *)
(*                                                                         *)
(* The tracker is single threaded and never re-entered: every public call  *)
(* is one atomic action.  A call is modelled as a function from the        *)
(* tracker's state to [st |-> the state after it, ret |-> what it returns].*)
(* PERFETTO_DCHECKs are compiled out of release builds; the model          *)
(* continues past a failing DCHECK and collects its name in st.dchecks.    *)
(***************************************************************************)
EXTENDS Integers, Sequences, FiniteSets, TLC

\* ------------------------------------------------------------ bounds
\* tids and pids of the trace are 0..MaxTid; the tables and buffers are capped.
MaxTid == 1
MaxThreads == 4
MaxProcesses == 3
MaxAssocProcesses == 2
MaxPendingAssocs == 2
MaxErrors == 1
MaxNameThreads == 3
MaxNameProcesses == 2
MaxNsPid == 2
MaxNsTids == 2
MaxLocalId == 2
MaxNsDepth == 2
MaxParentThreads == 4
MaxParentProcesses == 3
MaxPendingParents == 1

Tids == 0..MaxTid
Pids == 0..MaxTid
Timestamps == {100}

\* ------------------------------------------------------------ values
None == <<>>
Some(x) == <<x>>
HasValue(o) == o # <<>>
Value(o) == o[1]

\* StringId: the null id and the interned names the calls use.
kNullStringId == ""
swapper_id == "swapper"

\* ThreadNamePriority, lowest to highest.
kOther == 0
kProcessTree == 4
kTraceProcessorConstant == 6

VARIABLES thread, process, tids, pids, thread_name_priorities,
          pending_assocs, pending_parent_assocs, process_tracker_errors,
          namespaced_processes, namespaced_threads

vars == <<thread, process, tids, pids, thread_name_priorities,
          pending_assocs, pending_parent_assocs, process_tracker_errors,
          namespaced_processes, namespaced_threads>>

\* The tracker's state as one value, so that a call is a function of it.
\* dchecks collects the DCHECKs that failed during the call being made.
St == [thread |-> thread, process |-> process, tids |-> tids, pids |-> pids,
       thread_name_priorities |-> thread_name_priorities,
       pending_assocs |-> pending_assocs,
       pending_parent_assocs |-> pending_parent_assocs,
       namespaced_processes |-> namespaced_processes,
       namespaced_threads |-> namespaced_threads,
       process_tracker_errors |-> process_tracker_errors,
       dchecks |-> {}]

\* ------------------------------------------------------------ helpers
Utids(s) == 0..(Len(s.thread) - 1)
Upids(s) == 0..(Len(s.process) - 1)
Thr(s, utid) == s.thread[utid + 1]
Proc(s, upid) == s.process[upid + 1]

\* base::FlatHashMap: Insert keeps an existing value, operator[] and the
\* assignment through the iterator overwrite, Erase drops the key.
MapPut(m, k, v) == [x \in (DOMAIN m) \cup {k} |-> IF x = k THEN v ELSE m[x]]
MapInsert(m, k, v) == IF k \in DOMAIN m THEN m ELSE MapPut(m, k, v)
MapErase(m, k) == [x \in (DOMAIN m) \ {k} |-> m[x]]

DCheck(s, cond, name) ==
  IF cond THEN s ELSE [s EXCEPT !.dchecks = @ \cup {name}]

Ret(s, r) == [st |-> s, ret |-> r]

\* F applied to the value of v: v is evaluated once, as a statement that
\* assigns a local is executed once.
Bind(v, F(_)) == CHOOSE r \in {F(x) : x \in {v}} : TRUE

RECURSIVE SeqRemove(_, _)
SeqRemove(v, x) ==
  IF v = <<>> THEN <<>>
  ELSE IF Head(v) = x THEN SeqRemove(Tail(v), x)
  ELSE <<Head(v)>> \o SeqRemove(Tail(v), x)

\* A faulty EndThread that leaves the thread in tids_.
EraseRemoveKeepsAll(v, x) == v

\* vector.erase(std::remove(vector.begin(), vector.end(), x)): std::remove
\* compacts the elements other than x to the front and leaves the tail as it
\* was; the one-iterator erase then drops the single element at the new end.
\* x is in the vector at every call site.
EraseRemove(v, x) ==
  LET kept == SeqRemove(v, x)
  IN kept \o SubSeq(v, Len(kept) + 2, Len(v))

\* ------------------------------------------------------------ constructor
ThreadRow(tid, upid, start_ts, is_main_thread) ==
  [tid |-> tid, upid |-> upid, start_ts |-> start_ts, end_ts |-> None,
   name |-> kNullStringId, is_main_thread |-> is_main_thread]

ProcessRow(pid) ==
  [pid |-> pid, parent_upid |-> None, start_ts |-> None, end_ts |-> None,
   name |-> kNullStringId]

\* A faulty constructor that registers tid 0 and pid 0 for the reserved rows.
ProcessTrackerRegistersIdle ==
  [thread |-> <<ThreadRow(0, Some(0), None, Some(TRUE))>>,
   process |-> <<ProcessRow(0)>>,
   tids |-> MapPut(<<>>, 0, <<0>>),
   pids |-> MapPut(<<>>, 0, 0),
   thread_name_priorities |-> <<kOther>>,
   pending_assocs |-> <<>>,
   pending_parent_assocs |-> <<>>,
   process_tracker_errors |-> 0,
   namespaced_processes |-> <<>>,
   namespaced_threads |-> <<>>,
   dchecks |-> {}]

ProcessTracker ==
  [thread |-> <<ThreadRow(0, Some(0), None, Some(TRUE))>>,
   process |-> <<ProcessRow(0)>>,
   tids |-> <<>>,
   pids |-> <<>>,
   thread_name_priorities |-> <<kOther>>,
   pending_assocs |-> <<>>,
   pending_parent_assocs |-> <<>>,
   process_tracker_errors |-> 0,
   namespaced_processes |-> <<>>,
   namespaced_threads |-> <<>>,
   dchecks |-> {}]

\* ------------------------------------------------------------ threads
\* A faulty StartNewThread that reuses the row of a thread that has ended.
StartNewThreadRecycles(s, timestamp, tid) ==
  LET ended == {u \in 1..(Len(s.thread) - 1) : s.thread[u + 1].end_ts # <<>>}
      new_utid == IF ended = {} THEN Len(s.thread)
                  ELSE CHOOSE u \in ended : \A w \in ended : u <= w
      vector == IF tid \in DOMAIN s.tids THEN s.tids[tid] ELSE <<>>
  IN IF ended = {}
       THEN Ret([s EXCEPT !.thread = Append(@, ThreadRow(tid, None, timestamp, None)),
                          !.tids = MapPut(@, tid, Append(vector, new_utid)),
                          !.thread_name_priorities = Append(@, kOther)],
                new_utid)
     ELSE Ret([s EXCEPT !.thread[new_utid + 1] =
                          ThreadRow(tid, None, timestamp, None),
                        !.tids = MapPut(@, tid, Append(vector, new_utid)),
                        !.thread_name_priorities[new_utid + 1] = kOther],
              new_utid)

StartNewThread(s, timestamp, tid) ==
  LET new_utid == Len(s.thread)
      vector == IF tid \in DOMAIN s.tids THEN s.tids[tid] ELSE <<>>
      dchecks == IF Len(s.thread_name_priorities) = new_utid THEN s.dchecks
                 ELSE s.dchecks \cup {"StartNewThread:priorities_size"}
  IN Ret([s EXCEPT !.thread = Append(@, ThreadRow(tid, None, timestamp, None)),
                   !.tids = MapPut(@, tid, Append(vector, new_utid)),
                   !.thread_name_priorities = Append(@, kOther),
                   !.dchecks = dchecks],
         new_utid)

\* A faulty IsThreadAlive without the check that pids_ still refers to the
\* process of the thread.
IsThreadAliveIgnoresPids(s, utid) ==
  IF HasValue(Thr(s, utid).end_ts) THEN FALSE
  ELSE IF ~HasValue(Thr(s, utid).upid) THEN TRUE
  ELSE ~HasValue(Proc(s, Value(Thr(s, utid).upid)).end_ts)

IsThreadAlive(s, utid) ==
  IF HasValue(Thr(s, utid).end_ts) THEN FALSE
  ELSE LET opt_current_upid == Thr(s, utid).upid
       IN IF ~HasValue(opt_current_upid) THEN TRUE
          ELSE LET current_upid == Value(opt_current_upid)
                   current_pid == Proc(s, current_upid).pid
               IN IF HasValue(Proc(s, current_upid).end_ts) THEN FALSE
                  ELSE IF current_pid \in DOMAIN s.pids
                          /\ s.pids[current_pid] # current_upid THEN FALSE
                  ELSE TRUE

\* A faulty loop that returns the newest live thread whatever its process.
RECURSIVE GetThreadOrNullLoopAnyProcess(_, _, _, _, _)
GetThreadOrNullLoopAnyProcess(s, tid, it, pid, dchecks) ==
  IF it = 0 THEN Ret(s, None)
  ELSE IF IsThreadAlive(s, s.tids[tid][it]) THEN Ret(s, Some(s.tids[tid][it]))
  ELSE GetThreadOrNullLoopAnyProcess(s, tid, it - 1, pid, dchecks)

\* The reverse loop of GetThreadOrNull(tid, pid) over tids_[tid]: it is the
\* position of the reverse iterator, Len(vector) for rbegin and 0 for rend;
\* dchecks are the DCHECKs that failed so far.
RECURSIVE GetThreadOrNullLoop(_, _, _, _, _)
GetThreadOrNullLoop(s, tid, it, pid, dchecks) ==
  IF it = 0 THEN Ret([s EXCEPT !.dchecks = dchecks], None)
  ELSE
    LET current_utid == s.tids[tid][it]
        dchecks1 == IF ~HasValue(Thr(s, current_utid).end_ts) THEN dchecks
                    ELSE dchecks \cup {"GetThreadOrNull:ended_thread_in_tids"}
        opt_current_upid == Thr(s, current_utid).upid
    IN IF ~IsThreadAlive(s, current_utid)
         THEN GetThreadOrNullLoop(s, tid, it - 1, pid, dchecks1)
       ELSE IF ~HasValue(opt_current_upid)
         THEN Ret([s EXCEPT !.dchecks = dchecks1], Some(current_utid))
       ELSE IF ~HasValue(pid)
               \/ Proc(s, Value(opt_current_upid)).pid = Value(pid)
         THEN Ret([s EXCEPT !.dchecks = dchecks1], Some(current_utid))
       ELSE GetThreadOrNullLoop(s, tid, it - 1, pid, dchecks1)

\* GetThreadOrNull(tid, pid), the two-argument overload.
GetThreadOrNull2(s, tid, pid) ==
  IF tid \notin DOMAIN s.tids THEN Ret(s, None)
  ELSE GetThreadOrNullLoop(s, tid, Len(s.tids[tid]), pid, s.dchecks)

\* GetThreadOrNull(tid), the one-argument overload.
GetThreadOrNull(s, tid) ==
  Bind(GetThreadOrNull2(s, tid, None), LAMBDA r :
    IF ~HasValue(r.ret) THEN Ret(r.st, None)
    ELSE LET utid == Value(r.ret)
         IN Ret(DCheck(DCheck(r.st, Thr(r.st, utid).tid = tid,
                              "GetThreadOrNull:tid_mismatch"),
                       ~HasValue(Thr(r.st, utid).end_ts),
                       "GetThreadOrNull:returned_ended_thread"),
                Some(utid)))

GetOrCreateThread(s, tid) ==
  Bind(GetThreadOrNull(s, tid), LAMBDA r :
    IF HasValue(r.ret) THEN Ret(r.st, Value(r.ret))
    ELSE StartNewThread(r.st, None, tid))

\* A faulty EndThread that ends the process of any bound thread.
EndThreadEndsProcess(s, timestamp, tid) ==
  Bind(GetThreadOrNull(s, tid), LAMBDA r :
    IF ~HasValue(r.ret) THEN Ret(r.st, None)
    ELSE
      LET utid == Value(r.ret)
          opt_upid == Thr(r.st, utid).upid
          s2 == [r.st EXCEPT !.thread[utid + 1].end_ts = Some(timestamp),
                             !.tids[tid] = EraseRemove(@, utid)]
      IN IF ~HasValue(opt_upid) THEN Ret(s2, None)
         ELSE Ret([s2 EXCEPT !.process[Value(opt_upid) + 1].end_ts =
                               Some(timestamp),
                             !.pids = MapErase(@, tid)],
                  None))

\* A faulty EndThread that starts a thread when it finds none, and ends it.
EndThreadCreates(s, timestamp, tid) ==
  Bind(GetOrCreateThread(s, tid), LAMBDA r :
    Ret([r.st EXCEPT !.thread[r.ret + 1].end_ts = Some(timestamp),
                     !.tids[tid] = EraseRemove(@, r.ret)],
        None))

EndThread(s, timestamp, tid) ==
  Bind(GetThreadOrNull(s, tid), LAMBDA r :
    IF ~HasValue(r.ret) THEN Ret(r.st, None)
    ELSE
      LET utid == Value(r.ret)
          opt_upid == Thr(r.st, utid).upid
          s2 == [r.st EXCEPT !.thread[utid + 1].end_ts = Some(timestamp),
                             !.tids[tid] = EraseRemove(@, utid)]
      IN IF ~HasValue(opt_upid) \/ Proc(r.st, Value(opt_upid)).pid # tid
           THEN Ret(s2, None)
         ELSE
           Ret([DCheck(s2, Thr(r.st, utid).is_main_thread = Some(TRUE),
                       "EndThread:not_main_thread")
                  EXCEPT !.process[Value(opt_upid) + 1].end_ts = Some(timestamp),
                         !.pids = MapErase(@, tid)],
               None))

\* A faulty UpdateThreadNameByUtid that writes whatever the priority.
UpdateThreadNameByUtidAlways(s, utid, thread_name_id, priority) ==
  IF thread_name_id = kNullStringId THEN Ret(s, None)
  ELSE Ret([s EXCEPT !.thread[utid + 1].name = thread_name_id,
                     !.thread_name_priorities[utid + 1] = priority], None)

\* A faulty UpdateThreadNameByUtid that keeps a name of equal priority.
UpdateThreadNameByUtidStrict(s, utid, thread_name_id, priority) ==
  IF thread_name_id = kNullStringId THEN Ret(s, None)
  ELSE IF priority > s.thread_name_priorities[utid + 1]
    THEN Ret([s EXCEPT !.thread[utid + 1].name = thread_name_id,
                       !.thread_name_priorities[utid + 1] = priority], None)
  ELSE Ret(s, None)

UpdateThreadNameByUtid(s, utid, thread_name_id, priority) ==
  IF thread_name_id = kNullStringId THEN Ret(s, None)
  ELSE IF priority >= s.thread_name_priorities[utid + 1]
    THEN Ret([s EXCEPT !.thread[utid + 1].name = thread_name_id,
                       !.thread_name_priorities[utid + 1] = priority], None)
  ELSE Ret(s, None)

UpdateThreadName(s, tid, thread_name_id, priority) ==
  Bind(GetOrCreateThread(s, tid), LAMBDA r :
    Ret(UpdateThreadNameByUtid(r.st, r.ret, thread_name_id, priority).st, r.ret))

\* ------------------------------------------------------------ association
\* A faulty AssociateThreadToProcess that does not compute the flag.
AssociateThreadToProcessKeepsFlag(s, utid, upid) ==
  [s EXCEPT !.thread[utid + 1].upid = Some(upid)]

AssociateThreadToProcess(s, utid, upid) ==
  LET main_thread == Thr(s, utid).tid = Proc(s, upid).pid
  IN [s EXCEPT !.thread[utid + 1].upid = Some(upid),
               !.thread[utid + 1].is_main_thread = Some(main_thread)]

SwapAt(v, i, j) == [v EXCEPT ![i] = v[j], ![j] = v[i]]

\* The scan of pending_parent_assocs_ for the entries whose parent is utid.
\* it is the position of the iterator (1 for begin); a matching entry is
\* swapped with the last one and popped, and it stays where it is.
RECURSIVE ResolveParentLoop(_, _, _, _)
ResolveParentLoop(s, it, utid, upid) ==
  IF it > Len(s.pending_parent_assocs) THEN s
  ELSE
    LET parent_utid == s.pending_parent_assocs[it][1]
        child_upid == s.pending_parent_assocs[it][2]
        n == Len(s.pending_parent_assocs)
    IN IF parent_utid # utid THEN ResolveParentLoop(s, it + 1, utid, upid)
       ELSE
         Bind([DCheck(DCheck(s, child_upid # upid, "Resolve:child_is_parent"),
                      ~HasValue(Proc(s, child_upid).parent_upid)
                      \/ Proc(s, child_upid).parent_upid = Some(upid),
                      "Resolve:parent_upid_conflict")
                 EXCEPT !.process[child_upid + 1].parent_upid = Some(upid),
                        !.pending_parent_assocs = SubSeq(SwapAt(@, it, n), 1, n - 1)],
              LAMBDA s1 : ResolveParentLoop(s1, it, utid, upid))

\* A faulty scan that binds the other thread of an entry but does not push
\* it on the worklist.
RECURSIVE ResolveAssocLoopNoPush(_, _, _, _, _, _)
ResolveAssocLoopNoPush(s, it, end, utid, upid, resolved_utids) ==
  IF it = end
    THEN [st |-> [s EXCEPT !.pending_assocs = SubSeq(@, 1, end - 1)],
          resolved_utids |-> resolved_utids]
  ELSE
    LET first == s.pending_assocs[it][1]
        second == s.pending_assocs[it][2]
        other_utid == IF first = utid THEN second ELSE first
    IN IF first # utid /\ second # utid
         THEN ResolveAssocLoopNoPush(s, it + 1, end, utid, upid, resolved_utids)
       ELSE
         Bind([AssociateThreadToProcess(s, other_utid, upid)
                 EXCEPT !.pending_assocs = SwapAt(@, it, end - 1)],
              LAMBDA s1 : ResolveAssocLoopNoPush(s1, it, end - 1, utid, upid,
                                                 resolved_utids))

\* The scan of pending_assocs_ for the entries that contain utid.  it and end
\* are positions (end is one past the last entry still kept); a matching entry
\* is swapped to end - 1 and end moves back; the entries from end on are
\* erased when the scan is over.  Returns the state and the worklist with the
\* newly bound threads pushed.
RECURSIVE ResolveAssocLoop(_, _, _, _, _, _)
ResolveAssocLoop(s, it, end, utid, upid, resolved_utids) ==
  IF it = end
    THEN [st |-> [s EXCEPT !.pending_assocs = SubSeq(@, 1, end - 1)],
          resolved_utids |-> resolved_utids]
  ELSE
    LET first == s.pending_assocs[it][1]
        second == s.pending_assocs[it][2]
        other_utid == IF first = utid THEN second ELSE first
    IN IF first # utid /\ second # utid
         THEN ResolveAssocLoop(s, it + 1, end, utid, upid, resolved_utids)
       ELSE
         Bind([AssociateThreadToProcess(
                 DCheck(DCheck(s, other_utid # utid, "Resolve:self_association"),
                        ~HasValue(Thr(s, other_utid).upid)
                        \/ Thr(s, other_utid).upid = Some(upid),
                        "Resolve:upid_conflict"),
                 other_utid, upid)
                 EXCEPT !.pending_assocs = SwapAt(@, it, end - 1)],
              LAMBDA s1 : ResolveAssocLoop(s1, it, end - 1, utid, upid,
                                           Append(resolved_utids, other_utid)))

\* while (!resolved_utids.empty()): the worklist is a stack.
RECURSIVE ResolveWorklist(_, _, _)
ResolveWorklist(s, resolved_utids, upid) ==
  IF resolved_utids = <<>> THEN s
  ELSE
    LET utid == resolved_utids[Len(resolved_utids)]
        rest == SubSeq(resolved_utids, 1, Len(resolved_utids) - 1)
    IN Bind(ResolveParentLoop(s, 1, utid, upid), LAMBDA s1 :
         Bind(ResolveAssocLoop(s1, 1, Len(s1.pending_assocs) + 1, utid, upid, rest),
              LAMBDA r : ResolveWorklist(r.st, r.resolved_utids, upid)))

ResolvePendingAssociations(s, utid_arg, upid) ==
  ResolveWorklist(DCheck(s, Thr(s, utid_arg).upid = Some(upid),
                         "Resolve:entry_upid"),
                  <<utid_arg>>, upid)

\* ------------------------------------------------------------ processes
RECURSIVE UpdateThread(_, _, _)
RECURSIVE GetOrCreateProcess(_, _)

\* A faulty UpdateThread that starts a thread without looking one up.
UpdateThreadAlwaysStarts(s, tid, pid) ==
  Bind(StartNewThread(s, None, tid), LAMBDA n :
    Bind(GetOrCreateProcess(n.st, pid), LAMBDA g :
      Bind(AssociateThreadToProcess(g.st, n.ret, g.ret), LAMBDA s2 :
        Ret(ResolvePendingAssociations(s2, n.ret, g.ret), n.ret))))

UpdateThread(s, tid, pid) ==
  Bind(GetThreadOrNull2(s, tid, Some(pid)), LAMBDA r :
    Bind(IF HasValue(r.ret) THEN Ret(r.st, Value(r.ret))
         ELSE StartNewThread(r.st, None, tid), LAMBDA n :
      Bind(DCheck(n.st, Thr(n.st, n.ret).tid = tid, "UpdateThread:tid_mismatch"),
           LAMBDA s1 :
        Bind(IF ~HasValue(Thr(s1, n.ret).upid)
               THEN Bind(GetOrCreateProcess(s1, pid), LAMBDA g :
                      AssociateThreadToProcess(g.st, n.ret, g.ret))
             ELSE s1, LAMBDA s2 :
          Ret(ResolvePendingAssociations(s2, n.ret, Value(Thr(s2, n.ret).upid)),
              n.ret)))))

\* A faulty GetOrCreateProcess that creates no main thread.
GetOrCreateProcessNoMainThread(s, pid) ==
  IF pid \in DOMAIN s.pids THEN Ret(s, s.pids[pid])
  ELSE Ret([s EXCEPT !.process = Append(@, ProcessRow(pid)),
                     !.pids = MapPut(@, pid, Len(s.process))],
           Len(s.process))

GetOrCreateProcess(s, pid) ==
  IF pid \in DOMAIN s.pids
    THEN Ret(DCheck(s, ~HasValue(Proc(s, s.pids[pid]).end_ts),
                    "GetOrCreateProcess:ended_process_in_pids"),
             s.pids[pid])
  ELSE
    LET upid == Len(s.process)
    IN Bind([s EXCEPT !.process = Append(@, ProcessRow(pid)),
                      !.pids = MapPut(@, pid, upid)],
            LAMBDA s1 : Ret(UpdateThread(s1, pid, pid).st, upid))

\* A faulty tail of StartNewProcess that defers every parent.
StartNewProcessParentAlwaysDefers(s, parent_tid, upid) ==
  IF ~HasValue(parent_tid) THEN Ret(s, upid)
  ELSE
    Bind(GetOrCreateThread(s, Value(parent_tid)), LAMBDA p :
      Ret([p.st EXCEPT !.pending_parent_assocs = Append(@, <<p.ret, upid>>)],
          upid))

\* The tail of StartNewProcess, from if (parent_tid).
StartNewProcessParent(s, parent_tid, upid) ==
  IF ~HasValue(parent_tid) THEN Ret(s, upid)
  ELSE
    Bind(GetOrCreateThread(s, Value(parent_tid)), LAMBDA p :
      LET opt_parent_upid == Thr(p.st, p.ret).upid
      IN IF HasValue(opt_parent_upid)
           THEN Ret([p.st EXCEPT !.process[upid + 1].parent_upid = opt_parent_upid],
                    upid)
         ELSE Ret([p.st EXCEPT !.pending_parent_assocs = Append(@, <<p.ret, upid>>)],
                  upid))

\* A faulty StartNewProcess that does not erase pid from pids_.
StartNewProcessKeepsPid(s, timestamp, parent_tid, pid, main_thread_name, priority) ==
  Bind(StartNewThread(s, timestamp, pid), LAMBDA t :
    Bind(UpdateThreadNameByUtid(t.st, t.ret, main_thread_name, priority).st,
         LAMBDA s2 :
      Bind(GetOrCreateProcess(s2, pid), LAMBDA g :
        Bind([g.st EXCEPT !.process[g.ret + 1].start_ts =
                            IF HasValue(timestamp) THEN timestamp ELSE @,
                          !.process[g.ret + 1].name = main_thread_name],
             LAMBDA s3 : StartNewProcessParent(s3, parent_tid, g.ret)))))

StartNewProcess(s, timestamp, parent_tid, pid, main_thread_name, priority) ==
  Bind([s EXCEPT !.pids = MapErase(@, pid)], LAMBDA s1 :
    Bind(StartNewThread(s1, timestamp, pid), LAMBDA t :
      Bind(UpdateThreadNameByUtid(t.st, t.ret, main_thread_name, priority).st,
           LAMBDA s2 :
        Bind(GetOrCreateProcess(s2, pid), LAMBDA g :
          Bind([DCheck(DCheck(g.st, Proc(g.st, g.ret).name = kNullStringId,
                              "StartNewProcess:name_set"),
                       ~HasValue(Proc(g.st, g.ret).start_ts),
                       "StartNewProcess:start_ts_set")
                  EXCEPT !.process[g.ret + 1].start_ts =
                           IF HasValue(timestamp) THEN timestamp ELSE @,
                         !.process[g.ret + 1].name = main_thread_name],
               LAMBDA s3 : StartNewProcessParent(s3, parent_tid, g.ret))))))

\* cmdline is a column nothing reads; it is left out.
SetProcessMetadata(s, pid, ppid, name) ==
  Bind(IF HasValue(ppid)
         THEN Bind(GetOrCreateProcess(s, Value(ppid)), LAMBDA g :
                [st |-> g.st, pupid |-> Some(g.ret)])
       ELSE [st |-> s, pupid |-> None], LAMBDA pp :
    Bind(GetOrCreateProcess(pp.st, pid), LAMBDA g2 :
      Ret([g2.st EXCEPT !.process[g2.ret + 1].name = name,
                        !.process[g2.ret + 1].parent_upid =
                          IF HasValue(pp.pupid) THEN pp.pupid ELSE @],
          g2.ret)))

SetProcessNameIfUnset(s, upid, process_name_id) ==
  IF Proc(s, upid).name = kNullStringId
    THEN Ret([s EXCEPT !.process[upid + 1].name = process_name_id], None)
  ELSE Ret(s, None)

SetStartTsIfUnset(s, upid, start_ts_nanoseconds) ==
  IF ~HasValue(Proc(s, upid).start_ts)
    THEN Ret([s EXCEPT !.process[upid + 1].start_ts = Some(start_ts_nanoseconds)],
             None)
  ELSE Ret(s, None)

\* A faulty UpdateThreadNameAndMaybeProcessName that names the process of
\* any bound thread.
UpdateThreadNameAndProcessName(s, tid, thread_name, priority) ==
  Bind(UpdateThreadName(s, tid, thread_name, priority), LAMBDA r :
    IF HasValue(Thr(r.st, r.ret).upid)
      THEN Ret([r.st EXCEPT !.process[Value(Thr(r.st, r.ret).upid) + 1].name =
                              thread_name],
               None)
    ELSE Ret(r.st, None))

UpdateThreadNameAndMaybeProcessName(s, tid, thread_name, priority) ==
  Bind(UpdateThreadName(s, tid, thread_name, priority), LAMBDA r :
    LET opt_upid == Thr(r.st, r.ret).upid
    IN IF HasValue(opt_upid) /\ Proc(r.st, Value(opt_upid)).pid = tid
         THEN Ret([DCheck(r.st, HasValue(Thr(r.st, r.ret).is_main_thread),
                          "UpdateThreadNameAndMaybeProcessName:is_main_thread")
                     EXCEPT !.process[Value(opt_upid) + 1].name = thread_name],
                  None)
       ELSE Ret(r.st, None))

\* A faulty AssociateThreads that rebinds the second thread on a conflict.
AssociateThreadsRebinds(s, utid1, utid2) ==
  LET opt_upid1 == Thr(s, utid1).upid
      opt_upid2 == Thr(s, utid2).upid
  IN IF HasValue(opt_upid1) /\ ~HasValue(opt_upid2)
       THEN Bind(AssociateThreadToProcess(s, utid2, Value(opt_upid1)), LAMBDA s1 :
              Ret(ResolvePendingAssociations(s1, utid2, Value(opt_upid1)), None))
     ELSE IF HasValue(opt_upid2) /\ ~HasValue(opt_upid1)
       THEN Bind(AssociateThreadToProcess(s, utid1, Value(opt_upid2)), LAMBDA s1 :
              Ret(ResolvePendingAssociations(s1, utid1, Value(opt_upid2)), None))
     ELSE IF HasValue(opt_upid1) /\ opt_upid1 # opt_upid2
       THEN Ret(AssociateThreadToProcess(s, utid2, Value(opt_upid1)), None)
     ELSE Ret([s EXCEPT !.pending_assocs = Append(@, <<utid1, utid2>>)], None)

\* A faulty AssociateThreads that buffers a conflict instead of counting it.
AssociateThreadsBuffersConflict(s, utid1, utid2) ==
  LET opt_upid1 == Thr(s, utid1).upid
      opt_upid2 == Thr(s, utid2).upid
  IN IF HasValue(opt_upid1) /\ ~HasValue(opt_upid2)
       THEN Bind(AssociateThreadToProcess(s, utid2, Value(opt_upid1)), LAMBDA s1 :
              Ret(ResolvePendingAssociations(s1, utid2, Value(opt_upid1)), None))
     ELSE IF HasValue(opt_upid2) /\ ~HasValue(opt_upid1)
       THEN Bind(AssociateThreadToProcess(s, utid1, Value(opt_upid2)), LAMBDA s1 :
              Ret(ResolvePendingAssociations(s1, utid1, Value(opt_upid2)), None))
     ELSE Ret([s EXCEPT !.pending_assocs = Append(@, <<utid1, utid2>>)], None)

\* A faulty AssociateThreads that counts an error for any two bound threads.
AssociateThreadsCountsBound(s, utid1, utid2) ==
  LET opt_upid1 == Thr(s, utid1).upid
      opt_upid2 == Thr(s, utid2).upid
  IN IF HasValue(opt_upid1) /\ ~HasValue(opt_upid2)
       THEN Bind(AssociateThreadToProcess(s, utid2, Value(opt_upid1)), LAMBDA s1 :
              Ret(ResolvePendingAssociations(s1, utid2, Value(opt_upid1)), None))
     ELSE IF HasValue(opt_upid2) /\ ~HasValue(opt_upid1)
       THEN Bind(AssociateThreadToProcess(s, utid1, Value(opt_upid2)), LAMBDA s1 :
              Ret(ResolvePendingAssociations(s1, utid1, Value(opt_upid2)), None))
     ELSE IF HasValue(opt_upid1)
       THEN Ret([s EXCEPT !.process_tracker_errors = @ + 1], None)
     ELSE Ret([s EXCEPT !.pending_assocs = Append(@, <<utid1, utid2>>)], None)

\* A faulty AssociateThreads that binds the unbound thread and leaves the
\* associations pending on it where they are.
AssociateThreadsSkipsResolve(s, utid1, utid2) ==
  LET opt_upid1 == Thr(s, utid1).upid
      opt_upid2 == Thr(s, utid2).upid
  IN IF HasValue(opt_upid1) /\ ~HasValue(opt_upid2)
       THEN Ret(AssociateThreadToProcess(s, utid2, Value(opt_upid1)), None)
     ELSE IF HasValue(opt_upid2) /\ ~HasValue(opt_upid1)
       THEN Ret(AssociateThreadToProcess(s, utid1, Value(opt_upid2)), None)
     ELSE IF HasValue(opt_upid1) /\ opt_upid1 # opt_upid2
       THEN Ret([s EXCEPT !.process_tracker_errors = @ + 1], None)
     ELSE Ret([s EXCEPT !.pending_assocs = Append(@, <<utid1, utid2>>)], None)

AssociateThreads(s, utid1, utid2) ==
  LET opt_upid1 == Thr(s, utid1).upid
      opt_upid2 == Thr(s, utid2).upid
  IN IF HasValue(opt_upid1) /\ ~HasValue(opt_upid2)
       THEN Bind(AssociateThreadToProcess(s, utid2, Value(opt_upid1)), LAMBDA s1 :
              Ret(ResolvePendingAssociations(s1, utid2, Value(opt_upid1)), None))
     ELSE IF HasValue(opt_upid2) /\ ~HasValue(opt_upid1)
       THEN Bind(AssociateThreadToProcess(s, utid1, Value(opt_upid2)), LAMBDA s1 :
              Ret(ResolvePendingAssociations(s1, utid1, Value(opt_upid2)), None))
     ELSE IF HasValue(opt_upid1) /\ opt_upid1 # opt_upid2
       THEN Ret([s EXCEPT !.process_tracker_errors = @ + 1], None)
     ELSE Ret([s EXCEPT !.pending_assocs = Append(@, <<utid1, utid2>>)], None)

SetPidZeroIsUpidZeroIdleProcess(s) ==
  Bind([s EXCEPT !.tids = MapInsert(@, 0, <<0>>),
                 !.pids = MapInsert(@, 0, 0)], LAMBDA s1 :
    Ret(UpdateThreadName(s1, 0, swapper_id, kTraceProcessorConstant).st, None))

\* ------------------------------------------------------------ namespaces
\* namespaced_processes_[pid] = {pid, nspid, {}}: the entry is overwritten
\* and its thread set emptied.
UpdateNamespacedProcess(s, pid, nspid) ==
  Ret([s EXCEPT !.namespaced_processes =
                  MapPut(@, pid, [pid |-> pid, nspid |-> nspid, threads |-> {}])],
      None)

\* operator[] on namespaced_processes_ makes a default entry for a pid that
\* is not registered, after the DCHECK failed.
UpdateNamespacedThread(s, pid, tid, nstid) ==
  Bind(IF pid \in DOMAIN s.namespaced_processes THEN s
       ELSE [DCheck(s, FALSE, "UpdateNamespacedThread:process_registered")
               EXCEPT !.namespaced_processes =
                        MapPut(@, pid, [pid |-> 0, nspid |-> <<>>, threads |-> {}])],
       LAMBDA s1 :
    Ret([s1 EXCEPT !.namespaced_processes[pid].threads = @ \cup {tid},
                   !.namespaced_threads =
                     MapPut(@, tid, [pid |-> pid, tid |-> tid, nstid |-> nstid])],
        None))

\* What the loop of ResolveNamespacedTid can return.  process.threads is a
\* set, scanned in an order the code does not fix.  A thread whose nstid is
\* not longer than ns_level fails the DCHECK and nstid[ns_level] is read out
\* of bounds: the value read is any, so the thread may or may not match.
ResolveNamespacedTidLoop(s, threads, ns_level, tid) ==
  LET short == {t \in threads : Len(s.namespaced_threads[t].nstid) <= ns_level}
      matching == {t \in threads \ short :
                     s.namespaced_threads[t].nstid[ns_level + 1] = tid}
      st == IF short = {} THEN s
            ELSE DCheck(s, FALSE, "ResolveNamespacedTid:nstid_size")
  IN {Ret(st, Some(s.namespaced_threads[t].tid)) : t \in matching \cup short}
       \cup (IF matching = {} THEN {Ret(st, None)} ELSE {})

\* The set of the possible results.  A process entry with an empty nspid
\* (made by UpdateNamespacedThread for an unregistered pid) makes
\* nspid.back() undefined: any result is possible.
ResolveNamespacedTid(s, root_level_pid, tid) ==
  IF root_level_pid <= 0 THEN {Ret(s, None)}
  ELSE IF root_level_pid \notin DOMAIN s.namespaced_processes
    THEN {Ret(s, None)}
  ELSE
    LET process_ == s.namespaced_processes[root_level_pid]
    IN IF process_.nspid = <<>>
         THEN {Ret(DCheck(s, FALSE, "ResolveNamespacedTid:empty_nspid"), r) :
                 r \in {None, Some(root_level_pid)}
                         \cup {Some(t) : t \in process_.threads}}
       ELSE IF process_.nspid[Len(process_.nspid)] = tid
         THEN {Ret(s, Some(root_level_pid))}
       ELSE ResolveNamespacedTidLoop(s, process_.threads,
                                     Len(process_.nspid) - 1, tid)

\* ------------------------------------------------------------ the calls
\* Every public call is one step.  A profile b bounds the exploration: the
\* sizes the tables and buffers may reach and the sets the inputs are drawn
\* from.  A call whose result would exceed the sizes is not made.
Bounded(b, s) ==
  /\ Len(s.thread) <= b.threads
  /\ Len(s.process) <= b.processes
  /\ Len(s.pending_assocs) <= b.pending_assocs
  /\ Len(s.pending_parent_assocs) <= b.pending_parent_assocs
  /\ s.process_tracker_errors <= b.errors

Commit(b, r) ==
  /\ Bounded(b, r.st)
  /\ thread' = r.st.thread
  /\ process' = r.st.process
  /\ tids' = r.st.tids
  /\ pids' = r.st.pids
  /\ thread_name_priorities' = r.st.thread_name_priorities
  /\ pending_assocs' = r.st.pending_assocs
  /\ pending_parent_assocs' = r.st.pending_parent_assocs
  /\ process_tracker_errors' = r.st.process_tracker_errors
  /\ namespaced_processes' = r.st.namespaced_processes
  /\ namespaced_threads' = r.st.namespaced_threads

Opt(S) == {None} \cup {Some(x) : x \in S}

Init ==
  /\ thread = ProcessTracker.thread
  /\ process = ProcessTracker.process
  /\ tids = ProcessTracker.tids
  /\ pids = ProcessTracker.pids
  /\ thread_name_priorities = ProcessTracker.thread_name_priorities
  /\ pending_assocs = ProcessTracker.pending_assocs
  /\ pending_parent_assocs = ProcessTracker.pending_parent_assocs
  /\ process_tracker_errors = ProcessTracker.process_tracker_errors
  /\ namespaced_processes = ProcessTracker.namespaced_processes
  /\ namespaced_threads = ProcessTracker.namespaced_threads

DoStartNewThread(b) ==
  \E timestamp \in b.start_ts, tid \in Tids :
    \E r \in {StartNewThread(St, timestamp, tid)} : Commit(b, r)

DoEndThread(b) ==
  \E timestamp \in Timestamps, tid \in Tids :
    \E r \in {EndThread(St, timestamp, tid)} : Commit(b, r)

DoGetThreadOrNull(b) ==
  \E tid \in Tids :
    \E r \in {GetThreadOrNull(St, tid)} : Commit(b, r)

DoGetThreadOrNull2(b) ==
  \E tid \in Tids, pid \in Opt(Pids) :
    \E r \in {GetThreadOrNull2(St, tid, pid)} : Commit(b, r)

DoGetOrCreateThread(b) ==
  \E tid \in Tids :
    \E r \in {GetOrCreateThread(St, tid)} : Commit(b, r)

DoUpdateThreadName(b) ==
  \E tid \in Tids, name \in b.names, priority \in b.priorities :
    \E r \in {UpdateThreadName(St, tid, name, priority)} : Commit(b, r)

DoUpdateThreadNameByUtid(b) ==
  \E utid \in Utids(St), name \in b.names, priority \in b.priorities :
    \E r \in {UpdateThreadNameByUtid(St, utid, name, priority)} : Commit(b, r)

DoUpdateThread(b) ==
  \E tid \in Tids, pid \in Pids :
    \E r \in {UpdateThread(St, tid, pid)} : Commit(b, r)

DoStartNewProcess(b) ==
  \E timestamp \in b.start_ts, parent_tid \in b.parent_tids, pid \in Pids,
     name \in b.names, priority \in b.priorities :
    \E r \in {StartNewProcess(St, timestamp, parent_tid, pid, name, priority)} :
      Commit(b, r)

DoSetProcessMetadata(b) ==
  \E pid \in Pids, ppid \in b.ppids, name \in b.names :
    \E r \in {SetProcessMetadata(St, pid, ppid, name)} : Commit(b, r)

DoSetProcessNameIfUnset(b) ==
  \E upid \in Upids(St), name \in b.names :
    \E r \in {SetProcessNameIfUnset(St, upid, name)} : Commit(b, r)

DoSetStartTsIfUnset(b) ==
  \E upid \in Upids(St), ts \in b.set_start_ts :
    \E r \in {SetStartTsIfUnset(St, upid, ts)} : Commit(b, r)

DoUpdateThreadNameAndMaybeProcessName(b) ==
  \E tid \in Tids, name \in b.names, priority \in b.priorities :
    \E r \in {UpdateThreadNameAndMaybeProcessName(St, tid, name, priority)} :
      Commit(b, r)

DoGetOrCreateProcess(b) ==
  \E pid \in Pids :
    \E r \in {GetOrCreateProcess(St, pid)} : Commit(b, r)

DoAssociateThreads(b) ==
  \E utid1 \in Utids(St), utid2 \in Utids(St) :
    \E r \in {AssociateThreads(St, utid1, utid2)} : Commit(b, r)

DoSetPidZeroIsUpidZeroIdleProcess(b) ==
  \E r \in {SetPidZeroIsUpidZeroIdleProcess(St)} : Commit(b, r)

\* The inputs of the namespace calls: root-level pids and tids, and chains
\* of namespace-local ids, outermost first.
NsPids == 1..MaxNsPid
NsTids == (MaxNsPid + 1)..(MaxNsPid + MaxNsTids)
LocalIds == 1..MaxLocalId
Chains == UNION {[1..n -> LocalIds] : n \in 1..MaxNsDepth}

DoUpdateNamespacedProcess(b) ==
  \E pid \in NsPids, nspid \in Chains :
    \E r \in {UpdateNamespacedProcess(St, pid, nspid)} : Commit(b, r)

\* The caller registers the process first (the DCHECK of the call), and the
\* chain of a thread is as deep as the chain of the process it is registered
\* under (the DCHECK of ResolveNamespacedTid).
DoUpdateNamespacedThread(b) ==
  \E pid \in DOMAIN namespaced_processes, tid \in NsTids, nstid \in Chains :
    /\ Len(nstid) = Len(namespaced_processes[pid].nspid)
    /\ \E r \in {UpdateNamespacedThread(St, pid, tid, nstid)} : Commit(b, r)

DoResolveNamespacedTid(b) ==
  \E root_level_pid \in 0..MaxNsPid, tid \in LocalIds :
    \E r \in ResolveNamespacedTid(St, root_level_pid, tid) : Commit(b, r)

NextNamespaces(b) ==
  \/ DoUpdateNamespacedProcess(b)
  \/ DoUpdateNamespacedThread(b)
  \/ DoResolveNamespacedTid(b)

\* The calls that create, look up, bind and end threads and processes.
\* SetStartTsIfUnset reads and writes process.start_ts alone, a column that
\* decides no lookup and no binding; it belongs to Next only.
NextIdentity(b) ==
  \/ DoStartNewThread(b)
  \/ DoEndThread(b)
  \/ DoGetThreadOrNull(b)
  \/ DoGetThreadOrNull2(b)
  \/ DoGetOrCreateThread(b)
  \/ DoUpdateThreadName(b)
  \/ DoUpdateThreadNameByUtid(b)
  \/ DoUpdateThread(b)
  \/ DoStartNewProcess(b)
  \/ DoSetProcessMetadata(b)
  \/ DoSetProcessNameIfUnset(b)
  \/ DoUpdateThreadNameAndMaybeProcessName(b)
  \/ DoGetOrCreateProcess(b)
  \/ DoAssociateThreads(b)
  \/ DoSetPidZeroIsUpidZeroIdleProcess(b)

Next(b) ==
  \/ NextIdentity(b)
  \/ DoSetStartTsIfUnset(b)

\* The calls that name threads, with the calls that create, bind and end
\* the threads they name.
NextNames(b) ==
  \/ DoStartNewThread(b)
  \/ DoEndThread(b)
  \/ DoUpdateThreadName(b)
  \/ DoUpdateThreadNameByUtid(b)
  \/ DoUpdateThreadNameAndMaybeProcessName(b)
  \/ DoUpdateThread(b)
  \/ DoStartNewProcess(b)
  \/ DoSetPidZeroIsUpidZeroIdleProcess(b)

\* The calls that bind threads to processes and fill or drain pending_assocs_.
NextAssoc(b) ==
  \/ DoStartNewThread(b)
  \/ DoEndThread(b)
  \/ DoUpdateThread(b)
  \/ DoGetOrCreateProcess(b)
  \/ DoStartNewProcess(b)
  \/ DoAssociateThreads(b)

\* The calls that give a process a parent, with the calls that create, bind
\* and end the parent threads.
NextParents(b) ==
  \/ DoStartNewThread(b)
  \/ DoEndThread(b)
  \/ DoUpdateThread(b)
  \/ DoStartNewProcess(b)
  \/ DoSetProcessMetadata(b)
  \/ DoAssociateThreads(b)

\* The identity profile: threads, processes, the live index, thread ends and
\* direct bindings.  Names, start timestamps and parents are columns that
\* decide no lookup and no binding; here they take only their default inputs.
\* With no room in pending_assocs_, AssociateThreads binds or does nothing.
IdentityBounds ==
  [threads |-> MaxThreads, processes |-> MaxProcesses,
   pending_assocs |-> 0, pending_parent_assocs |-> 0, errors |-> 0,
   names |-> {kNullStringId}, priorities |-> {kOther},
   start_ts |-> {None}, set_start_ts |-> {}, parent_tids |-> {None},
   ppids |-> {None}]

\* The association profile: room for a chain of pending associations.
AssocBounds ==
  [threads |-> MaxThreads, processes |-> MaxAssocProcesses,
   pending_assocs |-> MaxPendingAssocs, pending_parent_assocs |-> 0,
   errors |-> 0,
   names |-> {kNullStringId}, priorities |-> {kOther},
   start_ts |-> {None}, set_start_ts |-> {}, parent_tids |-> {None},
   ppids |-> {None}]

\* The error profile: room for one pending association and for
\* process_tracker_errors to be counted.
ErrorBounds ==
  [threads |-> MaxThreads, processes |-> MaxAssocProcesses,
   pending_assocs |-> 1, pending_parent_assocs |-> 0,
   errors |-> MaxErrors,
   names |-> {kNullStringId}, priorities |-> {kOther},
   start_ts |-> {None}, set_start_ts |-> {}, parent_tids |-> {None},
   ppids |-> {None}]

\* The name profile: fewer rows, and names and priorities that differ.
Names == {kNullStringId, "a", "b"}
Priorities == {kOther, kProcessTree, kTraceProcessorConstant}

NameBounds ==
  [threads |-> MaxNameThreads, processes |-> MaxNameProcesses,
   pending_assocs |-> 0, pending_parent_assocs |-> 0, errors |-> 0,
   names |-> {kNullStringId, "a"}, priorities |-> Priorities,
   start_ts |-> {None}, set_start_ts |-> {}, parent_tids |-> {None},
   ppids |-> {None}]

\* The parent profile: StartNewProcess is given a parent tid and
\* SetProcessMetadata a ppid, with room for one deferred parent and one
\* pending association.
ParentBounds ==
  [threads |-> MaxParentThreads, processes |-> MaxParentProcesses,
   pending_assocs |-> 1, pending_parent_assocs |-> MaxPendingParents,
   errors |-> 0,
   names |-> {kNullStringId}, priorities |-> {kOther},
   start_ts |-> {None}, set_start_ts |-> {}, parent_tids |-> Opt(Tids),
   ppids |-> Opt(Pids)]

Spec == Init /\ [][NextIdentity(IdentityBounds)]_vars

SpecErrors == Init /\ [][NextAssoc(ErrorBounds)]_vars

SpecNames == Init /\ [][NextNames(NameBounds)]_vars

SpecNamespaces == Init /\ [][NextNamespaces(IdentityBounds)]_vars

SpecAssoc == Init /\ [][NextAssoc(AssocBounds)]_vars

SpecParents == Init /\ [][NextParents(ParentBounds)]_vars

\* ------------------------------------------------------------ properties
InTids(s, utid) ==
  LET tid == Thr(s, utid).tid
  IN tid \in DOMAIN s.tids
     /\ \E i \in 1..Len(s.tids[tid]) : s.tids[tid][i] = utid

Bound(s, utid) == HasValue(Thr(s, utid).upid)

\* C1  Alive-list integrity: a thread whose end_ts is set is not listed in
\* tids[tid of that thread], in every state the public calls can reach.
AliveListIntegrity ==
  \A u \in Utids(St) : HasValue(Thr(St, u).end_ts) => ~InTids(St, u)

\* A tid reused after its thread ended: the ended thread and a listed one.
AliveListIntegrityWitness ==
  \E u, v \in Utids(St) :
    /\ u # v
    /\ Thr(St, u).tid = Thr(St, v).tid
    /\ HasValue(Thr(St, u).end_ts)
    /\ ~HasValue(Thr(St, v).end_ts)
    /\ InTids(St, v)

\* C2  UTID uniqueness: StartNewThread returns the UTID of a row that did not
\* exist before the call, whatever tid is asked for and however often it was
\* used or ended; GetOrCreateThread and UpdateThread return such a UTID when
\* no live thread matches; and no creating call (these, GetOrCreateProcess,
\* StartNewProcess) takes over the row of an earlier UTID or lists a UTID
\* twice in tids.
CreatingCalls(s) ==
  {StartNewThread(s, ts, tid).st : ts \in Opt(Timestamps), tid \in Tids}
  \cup {GetOrCreateThread(s, tid).st : tid \in Tids}
  \cup {UpdateThread(s, tid, pid).st : tid \in Tids, pid \in Pids}
  \cup {GetOrCreateProcess(s, pid).st : pid \in Pids}
  \cup {StartNewProcess(s, None, parent_tid, pid, "main", kProcessTree).st :
          parent_tid \in Opt(Tids), pid \in Pids}

Occurrences(s, utid) ==
  Cardinality({<<tid, i>> \in UNION {{tid} \X (1..Len(s.tids[tid])) :
                                       tid \in DOMAIN s.tids} :
                 s.tids[tid][i] = utid})

UtidUniqueness ==
  /\ \A ts \in Opt(Timestamps), tid \in Tids :
       LET r == StartNewThread(St, ts, tid)
       IN /\ r.ret \notin Utids(St)
          /\ r.ret \in Utids(r.st)
          /\ Thr(r.st, r.ret).tid = tid
  /\ \A tid \in Tids :
       ~HasValue(GetThreadOrNull(St, tid).ret)
         => GetOrCreateThread(St, tid).ret \notin Utids(St)
  /\ \A tid \in Tids, pid \in Pids :
       ~HasValue(GetThreadOrNull2(St, tid, Some(pid)).ret)
         => UpdateThread(St, tid, pid).ret \notin Utids(St)
  /\ \A s2 \in CreatingCalls(St) :
       /\ Len(s2.thread) >= Len(thread)
       /\ \A u \in Utids(St) : Thr(s2, u).tid = Thr(St, u).tid
       /\ \A u \in Utids(s2) : Occurrences(s2, u) <= 1

\* The same tid was used for three threads, one of them ended.
UtidUniquenessWitness ==
  \E u, v, w \in Utids(St) :
    /\ u # v /\ v # w /\ u # w
    /\ Thr(St, u).tid = Thr(St, v).tid
    /\ Thr(St, v).tid = Thr(St, w).tid
    /\ HasValue(Thr(St, u).end_ts)
    /\ InTids(St, v) /\ InTids(St, w)

\* C4  Main-thread flag consistency: a thread that has a upid has
\* is_main_thread set, to whether its tid is the pid of that process; so has
\* the reserved UTID 0.
MainThreadFlagConsistency ==
  \A u \in Utids(St) :
    Bound(St, u) =>
      Thr(St, u).is_main_thread =
        Some(Proc(St, Value(Thr(St, u).upid)).pid = Thr(St, u).tid)

\* A process other than the reserved one with its main thread and another
\* thread, bound when the pending associations of the main thread were
\* resolved or by AssociateThreads.
MainThreadFlagConsistencyWitness ==
  \E u, v \in Utids(St) :
    /\ Bound(St, u) /\ Thr(St, u).upid = Thr(St, v).upid
    /\ Value(Thr(St, u).upid) # 0
    /\ Thr(St, u).is_main_thread = Some(TRUE)
    /\ Thr(St, v).is_main_thread = Some(FALSE)
    /\ Thr(St, 0).is_main_thread = Some(TRUE)

\* C5  Every pid in pids refers to a process row that has no end_ts.
PidsReferToLiveProcesses ==
  \A pid \in DOMAIN pids : ~HasValue(Proc(St, pids[pid]).end_ts)

\* C3  Referential stability: no call changes the tid of a thread, and no
\* call changes a upid that is set, be it by binding, by resolving pending
\* associations or by AssociateThreads on two bound threads.
ReferentialStabilityStep(s, s2) ==
  \A u \in Utids(s) :
    /\ u \in Utids(s2)
    /\ Thr(s2, u).tid = Thr(s, u).tid
    /\ Bound(s, u) => Thr(s2, u).upid = Thr(s, u).upid

ReferentialStability ==
  /\ [][ReferentialStabilityStep(St, St')]_vars
  /\ [](\A utid1, utid2 \in Utids(St) :
          ReferentialStabilityStep(St, AssociateThreads(St, utid1, utid2).st))

\* A thread that is not a main thread was bound to a process other than the
\* reserved one, while an association is pending on other threads.
ReferentialStabilityWitness ==
  \E u \in Utids(St) :
    /\ Bound(St, u)
    /\ Value(Thr(St, u).upid) # 0
    /\ Thr(St, u).is_main_thread = Some(FALSE)
    /\ Len(pending_assocs) > 0

\* The threads linked to those of S by one entry of pending_assocs, and the
\* threads linked to them by a chain of entries.
Linked(s, S) ==
  S \cup {s.pending_assocs[i][1] : i \in {j \in 1..Len(s.pending_assocs) :
                                           s.pending_assocs[j][2] \in S}}
    \cup {s.pending_assocs[i][2] : i \in {j \in 1..Len(s.pending_assocs) :
                                           s.pending_assocs[j][1] \in S}}

RECURSIVE Chained(_, _)
Chained(s, S) == IF Linked(s, S) = S THEN S ELSE Chained(s, Linked(s, S))

\* C6  Association transitivity: when a call binds an unbound thread a, every
\* unbound thread that a chain of pending associations links to a has the
\* same upid as a when the call returns.
AssociationTransitivityStep(s, s2) ==
  \A a \in Utids(s) :
    (~Bound(s, a) /\ Bound(s2, a)) =>
      \A c \in Chained(s, {a}) :
        ~Bound(s, c) => Thr(s2, c).upid = Thr(s2, a).upid

AssociationTransitivity == [][AssociationTransitivityStep(St, St')]_vars

\* AssociateThreads(a, b) and AssociateThreads(b, c) are pending on three
\* unbound threads, and an UpdateThread within the bounds binds all three.
AssociationTransitivityWitness ==
  \E a, b, c \in Utids(St) :
    /\ a # b /\ b # c /\ a # c
    /\ pending_assocs = <<<<a, b>>, <<b, c>>>>
    /\ ~Bound(St, a) /\ ~Bound(St, b) /\ ~Bound(St, c)
    /\ \E tid \in Tids, pid \in Pids :
         LET r == UpdateThread(St, tid, pid)
         IN /\ Bounded(AssocBounds, r.st)
            /\ Bound(r.st, a)
            /\ Thr(r.st, b).upid = Thr(r.st, a).upid
            /\ Thr(r.st, c).upid = Thr(r.st, a).upid
            /\ r.st.pending_assocs = <<>>

\* C7 as stated: pending_assocs holds no entry whose two threads both have a
\* upid.
PendingBufferDrain ==
  \A i \in 1..Len(pending_assocs) :
    ~(Bound(St, pending_assocs[i][1]) /\ Bound(St, pending_assocs[i][2]))

\* C7 as amended: pending_assocs holds no entry whose two threads both have
\* a upid, unless the two upids are the same.
PendingBufferDrainSameUpid ==
  \A i \in 1..Len(pending_assocs) :
    (Bound(St, pending_assocs[i][1]) /\ Bound(St, pending_assocs[i][2]))
      => Thr(St, pending_assocs[i][1]).upid = Thr(St, pending_assocs[i][2]).upid

\* Two different threads of one process other than the reserved one, in one
\* entry.
PendingBufferDrainSameUpidWitness ==
  \E i \in 1..Len(pending_assocs) :
    /\ pending_assocs[i][1] # pending_assocs[i][2]
    /\ Bound(St, pending_assocs[i][1])
    /\ Thr(St, pending_assocs[i][1]).upid = Thr(St, pending_assocs[i][2]).upid
    /\ Value(Thr(St, pending_assocs[i][1]).upid) # 0

\* C8  pid reuse kills old threads: when StartNewProcess is called for a pid
\* that pids maps to X, it returns another UPID, and on return no thread
\* that was bound to X is alive or returned by either GetThreadOrNull for
\* its tid, with any pid or none.
PidReuseKillsOldThreads ==
  \A pid \in DOMAIN pids, ts \in Opt(Timestamps), parent_tid \in Opt(Tids) :
    LET r == StartNewProcess(St, ts, parent_tid, pid, "main", kProcessTree)
    IN /\ r.ret # pids[pid]
       /\ \A u \in Utids(St) :
            Thr(St, u).upid = Some(pids[pid]) =>
              /\ ~IsThreadAlive(r.st, u)
              /\ GetThreadOrNull(r.st, Thr(St, u).tid).ret # Some(u)
              /\ \A p \in Opt(Pids) :
                   GetThreadOrNull2(r.st, Thr(St, u).tid, p).ret # Some(u)

\* After such a call: a thread that is not a main thread, has no end_ts and
\* is listed in tids, of a process that has not ended and whose pid now
\* refers to another process.
PidReuseKillsOldThreadsWitness ==
  \E u \in Utids(St) :
    /\ Bound(St, u)
    /\ ~HasValue(Thr(St, u).end_ts)
    /\ InTids(St, u)
    /\ LET upid == Value(Thr(St, u).upid)
       IN /\ ~HasValue(Proc(St, upid).end_ts)
          /\ Proc(St, upid).pid # Thr(St, u).tid
          /\ Proc(St, upid).pid \in DOMAIN pids
          /\ pids[Proc(St, upid).pid] # upid
          /\ ~IsThreadAlive(St, u)

\* C9  StartNewProcess returns a UPID that did not exist, whatever pids[pid]
\* held; on return pids[pid] is that UPID, and the thread the call created
\* for tid = pid is its main thread and the only thread bound to it.
StartNewProcessIsFresh ==
  \A pid \in Pids, ts \in Opt(Timestamps), parent_tid \in Opt(Tids) :
    LET r == StartNewProcess(St, ts, parent_tid, pid, "main", kProcessTree)
        utid == Len(thread)
    IN /\ r.ret \notin Upids(St)
       /\ r.ret \in Upids(r.st)
       /\ Proc(r.st, r.ret).pid = pid
       /\ pid \in DOMAIN r.st.pids
       /\ r.st.pids[pid] = r.ret
       /\ utid \in Utids(r.st)
       /\ Thr(r.st, utid).tid = pid
       /\ Thr(r.st, utid).upid = Some(r.ret)
       /\ Thr(r.st, utid).is_main_thread = Some(TRUE)
       /\ \A u \in Utids(r.st) : Thr(r.st, u).upid = Some(r.ret) => u = utid

\* pids has the pid, an older unbound live thread has the tid, and there is
\* room for the call.
StartNewProcessIsFreshWitness ==
  \E pid \in DOMAIN pids, u \in Utids(St) :
    /\ Thr(St, u).tid = pid
    /\ ~Bound(St, u)
    /\ IsThreadAlive(St, u)
    /\ InTids(St, u)
    /\ Bounded(IdentityBounds,
               StartNewProcess(St, None, None, pid, kNullStringId, kOther).st)

\* C10  GetThreadOrNull(tid, pid?) returns the last listed thread of
\* tids[tid] that is alive and, if a pid is given, is unbound or bound to a
\* process with that pid; nullopt if there is none; and changes nothing.
Matches(s, tid, pid) ==
  {i \in 1..Len(s.tids[tid]) :
     LET u == s.tids[tid][i]
     IN /\ IsThreadAlive(s, u)
        /\ \/ ~HasValue(pid)
           \/ ~Bound(s, u)
           \/ Proc(s, Value(Thr(s, u).upid)).pid = Value(pid)}

NewestMatch(s, tid, pid) ==
  IF tid \notin DOMAIN s.tids THEN None
  ELSE IF Matches(s, tid, pid) = {} THEN None
  ELSE Some(s.tids[tid][CHOOSE i \in Matches(s, tid, pid) :
                          \A j \in Matches(s, tid, pid) : j <= i])

GetThreadOrNullReturnsNewestMatch ==
  /\ \A tid \in Tids, pid \in Opt(Pids) :
       /\ GetThreadOrNull2(St, tid, pid).ret = NewestMatch(St, tid, pid)
       /\ GetThreadOrNull2(St, tid, pid).st = St
  /\ \A tid \in Tids :
       /\ GetThreadOrNull(St, tid).ret = NewestMatch(St, tid, None)
       /\ GetThreadOrNull(St, tid).st = St

\* Two matches, and a newer listed thread that is alive but bound to a
\* process with another pid.
GetThreadOrNullReturnsNewestMatchWitness ==
  \E tid \in DOMAIN tids, pid \in Pids :
    /\ Cardinality(Matches(St, tid, Some(pid))) >= 2
    /\ Len(tids[tid]) \notin Matches(St, tid, Some(pid))
    /\ IsThreadAlive(St, tids[tid][Len(tids[tid])])

\* C11 as stated: UpdateThread(tid, pid) returns a thread with that tid that
\* is bound to a process with that pid, and creates no thread row when a
\* live thread with that tid, unbound or of a process with that pid, exists.
UpdateThreadCreatesNoRow ==
  \A tid \in Tids, pid \in Pids :
    LET r == UpdateThread(St, tid, pid)
    IN /\ Thr(r.st, r.ret).tid = tid
       /\ Bound(r.st, r.ret)
       /\ Proc(r.st, Value(Thr(r.st, r.ret).upid)).pid = pid
       /\ HasValue(NewestMatch(St, tid, Some(pid)))
            => Len(r.st.thread) = Len(St.thread)

\* C11 as amended: UpdateThread(tid, pid) returns a thread with that tid
\* that is bound to a process with that pid; when a live thread with that
\* tid, unbound or of a process with that pid, exists, the newest such
\* thread is returned and no row with that tid is created: the only row the
\* call can add is one with tid = pid, for a pid that pids did not hold.
UpdateThreadReusesLiveThread ==
  \A tid \in Tids, pid \in Pids :
    LET r == UpdateThread(St, tid, pid)
    IN /\ r.ret \in Utids(r.st)
       /\ Thr(r.st, r.ret).tid = tid
       /\ Bound(r.st, r.ret)
       /\ Proc(r.st, Value(Thr(r.st, r.ret).upid)).pid = pid
       /\ HasValue(NewestMatch(St, tid, Some(pid))) =>
            /\ Some(r.ret) = NewestMatch(St, tid, Some(pid))
            /\ Len(r.st.thread) <= Len(St.thread) + 1
            /\ \A w \in Utids(r.st) \ Utids(St) :
                 /\ Thr(r.st, w).tid = pid
                 /\ pid # tid
                 /\ pid \notin DOMAIN St.pids

\* A live unbound thread has the tid, pids has no entry for the pid, which is
\* another number, and the call, within the bounds, adds the row of the main
\* thread of the new process.
UpdateThreadReusesLiveThreadWitness ==
  \E tid \in Tids, pid \in Pids :
    /\ tid # pid
    /\ pid \notin DOMAIN pids
    /\ HasValue(NewestMatch(St, tid, Some(pid)))
    /\ Bounded(AssocBounds, UpdateThread(St, tid, pid).st)
    /\ Len(UpdateThread(St, tid, pid).st.thread) = Len(thread) + 1

\* The live unbound threads that tids lists for a tid.
LiveUnbound(s, tid) ==
  {u \in Utids(s) : /\ Thr(s, u).tid = tid
                    /\ InTids(s, u)
                    /\ ~Bound(s, u)
                    /\ ~HasValue(Thr(s, u).end_ts)}

\* C12  GetOrCreateProcess(pid) returns pids[pid] and adds no row when pids
\* has the pid; otherwise it appends one process row with that pid, records
\* it in pids, and on return a live thread with tid = pid is bound to it as
\* main thread: a live unbound thread of that tid if there was one, with no
\* thread row added, else a new thread.
GetOrCreateProcessEnsuresMainThread ==
  \A pid \in Pids :
    LET r == GetOrCreateProcess(St, pid)
    IN IF pid \in DOMAIN pids
         THEN /\ r.ret = pids[pid]
              /\ r.st.process = process
              /\ r.st.thread = thread
              /\ r.st.pids = pids
              /\ r.st.tids = tids
       ELSE /\ r.ret = Len(process)
            /\ Len(r.st.process) = Len(process) + 1
            /\ SubSeq(r.st.process, 1, Len(process)) = process
            /\ Proc(r.st, r.ret).pid = pid
            /\ pid \in DOMAIN r.st.pids
            /\ r.st.pids[pid] = r.ret
            /\ \E u \in Utids(r.st) :
                 /\ Thr(r.st, u).tid = pid
                 /\ Thr(r.st, u).upid = Some(r.ret)
                 /\ Thr(r.st, u).is_main_thread = Some(TRUE)
                 /\ IsThreadAlive(r.st, u)
                 /\ IF LiveUnbound(St, pid) # {}
                      THEN /\ u \in LiveUnbound(St, pid)
                           /\ Len(r.st.thread) = Len(thread)
                    ELSE /\ u = Len(thread)
                         /\ Len(r.st.thread) = Len(thread) + 1

\* pids has no entry for a pid, two live unbound threads have it as tid, and
\* pids has an entry for another pid.
GetOrCreateProcessEnsuresMainThreadWitness ==
  \E pid \in Pids, other \in DOMAIN pids :
    /\ pid \notin DOMAIN pids
    /\ Cardinality(LiveUnbound(St, pid)) >= 2
    /\ Bounded(IdentityBounds, GetOrCreateProcess(St, pid).st)
    /\ Bounded(IdentityBounds, GetOrCreateProcess(St, other).st)

\* C13  EndThread(ts, tid) with a live thread u for tid, the newest one,
\* sets end_ts of u to ts and removes u from tids[tid]; no other thread row
\* changes.  If u is bound to a process whose pid is tid, end_ts of that
\* process becomes ts and tid is erased from pids, and nothing else of the
\* process table changes; otherwise the process table and pids are unchanged.
EndThreadEndsNewestLiveThread ==
  \A tid \in Tids, ts \in Timestamps :
    HasValue(GetThreadOrNull(St, tid).ret) =>
      LET u == Value(GetThreadOrNull(St, tid).ret)
          r == EndThread(St, ts, tid)
      IN /\ Some(u) = NewestMatch(St, tid, None)
         /\ r.st.thread = [thread EXCEPT ![u + 1].end_ts = Some(ts)]
         /\ r.st.tids = [tids EXCEPT
                           ![tid] = SelectSeq(@, LAMBDA x : x # u)]
         /\ IF Bound(St, u) /\ Proc(St, Value(Thr(St, u).upid)).pid = tid
              THEN /\ r.st.process =
                        [process EXCEPT
                           ![Value(Thr(St, u).upid) + 1].end_ts = Some(ts)]
                   /\ tid \notin DOMAIN r.st.pids
                   /\ \A p \in DOMAIN pids \ {tid} :
                        p \in DOMAIN r.st.pids /\ r.st.pids[p] = pids[p]
            ELSE /\ r.st.process = process
                 /\ r.st.pids = pids

\* An EndThread ended the main thread of a process and that process, and
\* the next EndThread for a tid ends a bound thread that is not a main
\* thread while an older live thread has the same tid.
EndThreadEndsNewestLiveThreadWitness ==
  /\ \E u \in Utids(St) :
       /\ HasValue(Thr(St, u).end_ts)
       /\ Thr(St, u).is_main_thread = Some(TRUE)
       /\ HasValue(Proc(St, Value(Thr(St, u).upid)).end_ts)
  /\ \E tid \in DOMAIN tids :
       /\ Cardinality(Matches(St, tid, None)) >= 2
       /\ Bound(St, Value(GetThreadOrNull(St, tid).ret))
       /\ Thr(St, Value(GetThreadOrNull(St, tid).ret)).is_main_thread
            = Some(FALSE)

\* C14  EndThread(ts, tid) with no live thread for tid changes nothing: no
\* thread row is created, and the thread table, the process table, tids,
\* pids and the pending buffers are as before.
EndThreadWithoutLiveThread ==
  \A tid \in Tids, ts \in Timestamps :
    ~HasValue(NewestMatch(St, tid, None)) => EndThread(St, ts, tid).st = St

\* The three cases at once or in turn: a tid that tids does not hold; a tid
\* whose threads have all ended; a tid whose listed threads all belong to a
\* process that has ended.
EndThreadWithoutLiveThreadWitness ==
  /\ \E tid \in Tids : tid \notin DOMAIN tids \/ tids[tid] = <<>>
  /\ \E tid \in DOMAIN tids :
       /\ tids[tid] # <<>>
       /\ \A i \in 1..Len(tids[tid]) :
            /\ Bound(St, tids[tid][i])
            /\ HasValue(Proc(St, Value(Thr(St, tids[tid][i]).upid)).end_ts)

\* C15  AssociateThreads(a, b) on two threads bound to different processes
\* adds one to process_tracker_errors and changes nothing else; in every
\* other case it leaves process_tracker_errors as it is.
AssociateThreadsCountsConflict ==
  \A a, b \in Utids(St) :
    LET r == AssociateThreads(St, a, b)
    IN IF Bound(St, a) /\ Bound(St, b) /\ Thr(St, a).upid # Thr(St, b).upid
         THEN r.st = [St EXCEPT !.process_tracker_errors = @ + 1]
       ELSE r.st.process_tracker_errors = process_tracker_errors

\* An error was counted, two threads are bound to different processes, two
\* to the same one, and an association is pending.
AssociateThreadsCountsConflictWitness ==
  /\ process_tracker_errors = 1
  /\ Len(pending_assocs) = 1
  /\ \E a, b, c \in Utids(St) :
       /\ a # b /\ b # c /\ a # c
       /\ Bound(St, a) /\ Bound(St, b) /\ Bound(St, c)
       /\ Thr(St, a).upid # Thr(St, b).upid
       /\ Thr(St, b).upid = Thr(St, c).upid

\* C16  Priority monotonicity: every thread has a recorded name priority,
\* and no call lowers the recorded name priority of a thread.
PriorityNeverDecreasesStep(s, s2) ==
  /\ Len(s2.thread_name_priorities) = Len(s2.thread)
  /\ \A u \in Utids(s) :
       s2.thread_name_priorities[u + 1] >= s.thread_name_priorities[u + 1]

PriorityNeverDecreases == [][PriorityNeverDecreasesStep(St, St')]_vars

\* Three threads whose recorded priorities are the lowest, a middle and the
\* highest, the latter two named by calls.
PriorityNeverDecreasesWitness ==
  \E u, v, w \in Utids(St) :
    /\ thread_name_priorities[u + 1] = kOther
    /\ thread_name_priorities[v + 1] = kProcessTree
    /\ Thr(St, v).name = "a"
    /\ thread_name_priorities[w + 1] = kTraceProcessorConstant
    /\ Thr(St, w).name = "a"

\* C17  UpdateThreadNameByUtid(u, name, p) changes nothing when name is null
\* or p is lower than the recorded priority of u; otherwise, equal priority
\* included, the name of u becomes name and its priority p, and nothing else
\* changes.  A thread that StartNewThread creates has priority Other.
UpdateThreadNameByUtidRespectsPriority ==
  /\ \A u \in Utids(St), name \in Names, p \in Priorities :
       LET r == UpdateThreadNameByUtid(St, u, name, p)
       IN IF name # kNullStringId /\ p >= thread_name_priorities[u + 1]
            THEN r.st = [St EXCEPT !.thread[u + 1].name = name,
                                   !.thread_name_priorities[u + 1] = p]
          ELSE r.st = St
  /\ \A tid \in Tids, ts \in Opt(Timestamps) :
       LET r == StartNewThread(St, ts, tid)
       IN /\ Len(r.st.thread_name_priorities) = r.ret + 1
          /\ r.st.thread_name_priorities[r.ret + 1] = kOther

\* A named thread of the middle priority: there are a lower, the equal and
\* a higher priority to call with, and another name.
UpdateThreadNameByUtidRespectsPriorityWitness ==
  \E u \in Utids(St) :
    /\ u # 0
    /\ Thr(St, u).name = "a"
    /\ thread_name_priorities[u + 1] = kProcessTree

\* C18 as stated: once end_ts of a thread row or of a process row is set, no
\* call changes a column of that row.
FinalisedRowsImmutableStep(s, s2) ==
  /\ \A u \in Utids(s) :
       HasValue(Thr(s, u).end_ts) => Thr(s2, u) = Thr(s, u)
  /\ \A p \in Upids(s) :
       HasValue(Proc(s, p).end_ts) => Proc(s2, p) = Proc(s, p)

FinalisedRowsImmutable == [][FinalisedRowsImmutableStep(St, St')]_vars

\* C19 as stated: when SetPidZeroIsUpidZeroIdleProcess returns, whatever
\* came before, tids[0] is the list of UTID 0 alone, pids[0] is UPID 0, and
\* UTID 0 is named "swapper" with priority TraceProcessorConstant.
SetPidZeroRegistersIdleProcess ==
  LET r == SetPidZeroIsUpidZeroIdleProcess(St)
  IN /\ 0 \in DOMAIN r.st.tids
     /\ r.st.tids[0] = <<0>>
     /\ 0 \in DOMAIN r.st.pids
     /\ r.st.pids[0] = 0
     /\ Thr(r.st, 0).name = swapper_id
     /\ r.st.thread_name_priorities[1] = kTraceProcessorConstant

\* C20  While SetPidZeroIsUpidZeroIdleProcess has not been called, no lookup
\* and no lookup-or-create call for tid 0 or pid 0 returns UTID 0 or UPID 0,
\* tids does not list UTID 0 and pids does not refer to UPID 0.
ReservedRowsNotReturned ==
  /\ \A tid \in DOMAIN tids : \A i \in 1..Len(tids[tid]) : tids[tid][i] # 0
  /\ \A pid \in DOMAIN pids : pids[pid] # 0
  /\ GetThreadOrNull(St, 0).ret # Some(0)
  /\ \A pid \in Opt(Pids) : GetThreadOrNull2(St, 0, pid).ret # Some(0)
  /\ GetOrCreateThread(St, 0).ret # 0
  /\ \A pid \in Pids : UpdateThread(St, 0, pid).ret # 0
  /\ GetOrCreateProcess(St, 0).ret # 0
  /\ \A parent_tid \in Opt(Tids) :
       StartNewProcess(St, None, parent_tid, 0, kNullStringId, kOther).ret # 0

\* tid 0 and pid 0 were seen: pids has pid 0, a live thread with tid 0 is the
\* main thread of that process, and another live thread with tid 0 was bound
\* to the reserved process by an association with UTID 0.
ReservedRowsNotReturnedWitness ==
  /\ 0 \in DOMAIN pids
  /\ \E u, v \in Utids(St) :
       /\ u # 0 /\ v # 0
       /\ Thr(St, u).tid = 0 /\ Thr(St, v).tid = 0
       /\ InTids(St, u) /\ InTids(St, v)
       /\ Thr(St, u).upid = Some(pids[0])
       /\ IsThreadAlive(St, u)
       /\ Thr(St, v).upid = Some(0)

\* C21 as stated: ResolveNamespacedTid(root_pid, id) changes nothing and
\* returns nullopt for root_pid 0 and for a pid that is not registered;
\* root_pid if id is the innermost element of nspid; otherwise a thread of
\* the thread set of the process whose nstid at the innermost depth of the
\* process is id, and nullopt if there is none.
ResolveNamespacedTidResult ==
  \A root_pid \in 0..MaxNsPid, id \in LocalIds :
    \A r \in ResolveNamespacedTid(St, root_pid, id) :
      /\ r.st = St
      /\ IF root_pid = 0 \/ root_pid \notin DOMAIN namespaced_processes
           THEN r.ret = None
         ELSE
           LET p == namespaced_processes[root_pid]
               depth == Len(p.nspid)
               m == {x \in p.threads :
                       /\ Len(namespaced_threads[x].nstid) >= depth
                       /\ namespaced_threads[x].nstid[depth] = id}
           IN IF p.nspid[depth] = id THEN r.ret = Some(root_pid)
              ELSE IF m = {} THEN r.ret = None
              ELSE r.ret \in {Some(x) : x \in m}

\* C22  UpdateThreadNameAndMaybeProcessName(tid, name, priority) does to
\* the thread table what UpdateThreadName does; if the thread it names is
\* bound to a process whose pid is tid, the name of that process becomes
\* name and nothing else of the process table changes; if the thread is
\* unbound or bound to a process with another pid, no process row changes.
MaybeProcessNameFollowsMainThread ==
  \A tid \in Tids, name \in Names, p \in Priorities :
    LET n == UpdateThreadName(St, tid, name, p)
        r == UpdateThreadNameAndMaybeProcessName(St, tid, name, p)
    IN /\ r.st.thread = n.st.thread
       /\ r.st.thread_name_priorities = n.st.thread_name_priorities
       /\ r.st.tids = n.st.tids
       /\ r.st.pids = pids
       /\ IF Bound(n.st, n.ret)
             /\ Proc(St, Value(Thr(n.st, n.ret).upid)).pid = tid
            THEN r.st.process =
                   [process EXCEPT
                      ![Value(Thr(n.st, n.ret).upid) + 1].name = name]
          ELSE r.st.process = process

\* A process named by the call through its main thread, and a live bound
\* thread that is not a main thread.
MaybeProcessNameFollowsMainThreadWitness ==
  /\ \E u \in Utids(St) :
       /\ u # 0
       /\ Thr(St, u).is_main_thread = Some(TRUE)
       /\ Thr(St, u).name = "a"
       /\ Proc(St, Value(Thr(St, u).upid)).name = "a"
       /\ GetThreadOrNull(St, Thr(St, u).tid).ret = Some(u)
  /\ \E v \in Utids(St) :
       /\ Thr(St, v).is_main_thread = Some(FALSE)
       /\ GetThreadOrNull(St, Thr(St, v).tid).ret = Some(v)

\* C23  pending entries agree: the two threads of every entry of
\* pending_assocs have the same upid column, both unset or both the same
\* UPID; and no UpdateThread or AssociateThreads call made from a reachable
\* state fails the assertion of ResolvePendingAssociations that the other
\* thread of an entry is unbound or bound to the upid being propagated.
PendingEntriesAgree ==
  /\ \A i \in 1..Len(pending_assocs) :
       Thr(St, pending_assocs[i][1]).upid = Thr(St, pending_assocs[i][2]).upid
  /\ \A tid \in Tids, pid \in Pids :
       "Resolve:upid_conflict" \notin UpdateThread(St, tid, pid).st.dchecks
  /\ \A utid1 \in Utids(St), utid2 \in Utids(St) :
       "Resolve:upid_conflict" \notin AssociateThreads(St, utid1, utid2).st.dchecks

\* An entry of two different unbound threads, and an UpdateThread call that
\* binds one of them and, through the entry, the other.
PendingEntriesAgreeWitness ==
  \E i \in 1..Len(pending_assocs), tid \in Tids, pid \in Pids :
    LET a == pending_assocs[i][1]
        b == pending_assocs[i][2]
        r == UpdateThread(St, tid, pid)
    IN /\ a # b
       /\ ~Bound(St, a)
       /\ ~Bound(St, b)
       /\ r.ret = a
       /\ Bound(r.st, b)
       /\ Thr(r.st, b).upid = Thr(r.st, a).upid
       /\ Len(r.st.pending_assocs) < Len(pending_assocs)

\* The deferred parents of a step: an entry whose parent thread is bound by
\* the step gives its child the upid of that thread.
DeferredParentLinkageStep(s, s2) ==
  \A i \in 1..Len(s.pending_parent_assocs) :
    LET parent_utid == s.pending_parent_assocs[i][1]
        child_upid == s.pending_parent_assocs[i][2]
    IN (~Bound(s, parent_utid) /\ Bound(s2, parent_utid))
         => /\ Proc(s2, child_upid).parent_upid = Thr(s2, parent_utid).upid
            /\ \A j \in 1..Len(s2.pending_parent_assocs) :
                 s2.pending_parent_assocs[j] # s.pending_parent_assocs[i]

\* C24  deferred parent linkage: StartNewProcess with a parent_tid either
\* sets parent_upid of the new process to the upid of a bound thread with
\* that tid and enqueues nothing, or leaves parent_upid unset and appends
\* (parent_utid, child_upid) for an unbound thread with that tid; a step that
\* binds the parent thread of an entry sets the child's parent_upid to the
\* thread's upid and removes the entry; and no entry of pending_parent_assocs
\* has a parent thread with a upid.
DeferredParentLinkage ==
  /\ [][DeferredParentLinkageStep(St, St')]_vars
  /\ [](\A i \in 1..Len(pending_parent_assocs) :
          ~Bound(St, pending_parent_assocs[i][1]))
  /\ [](\A parent_tid \in Tids, pid \in Pids :
          LET r == StartNewProcess(St, None, Some(parent_tid), pid,
                                   kNullStringId, kOther)
              parent_upid == Proc(r.st, r.ret).parent_upid
          IN IF HasValue(parent_upid)
               THEN /\ r.st.pending_parent_assocs = pending_parent_assocs
                    /\ \E u \in Utids(r.st) : /\ Thr(r.st, u).tid = parent_tid
                                              /\ Thr(r.st, u).upid = parent_upid
             ELSE \E u \in Utids(r.st) :
                    /\ Thr(r.st, u).tid = parent_tid
                    /\ ~Bound(r.st, u)
                    /\ r.st.pending_parent_assocs =
                         Append(pending_parent_assocs, <<u, r.ret>>))

\* A deferred parent whose thread is unbound and can be bound two ways: by
\* UpdateThread, and by an AssociateThreads call on a thread that a pending
\* association links to the parent thread.
DeferredParentLinkageWitness ==
  \E i \in 1..Len(pending_parent_assocs) :
    LET parent_utid == pending_parent_assocs[i][1]
        child_upid == pending_parent_assocs[i][2]
    IN /\ ~Bound(St, parent_utid)
       /\ ~HasValue(Proc(St, child_upid).parent_upid)
       /\ \E pid \in Pids :
            LET r == UpdateThread(St, Thr(St, parent_utid).tid, pid)
            IN /\ r.ret = parent_utid
               /\ Proc(r.st, child_upid).parent_upid = Thr(r.st, parent_utid).upid
               /\ r.st.pending_parent_assocs = <<>>
       /\ \E j \in 1..Len(pending_assocs), v \in Utids(St) :
            LET a == pending_assocs[j][1]
                b == pending_assocs[j][2]
                r == AssociateThreads(St, v, b)
            IN /\ a = parent_utid
               /\ b # a
               /\ Bound(St, v)
               /\ Proc(r.st, child_upid).parent_upid = Thr(St, v).upid
               /\ r.st.pending_parent_assocs = <<>>

\* C25  the parent assertion: no call made from a reachable state fails
\* the assertion of ResolvePendingAssociations that the child of a pending
\* parent entry has no parent_upid or already has the upid being propagated.
ParentAssertionHolds ==
  /\ \A tid \in Tids, pid \in Pids :
       "Resolve:parent_upid_conflict" \notin UpdateThread(St, tid, pid).st.dchecks
  /\ \A utid1 \in Utids(St), utid2 \in Utids(St) :
       "Resolve:parent_upid_conflict"
         \notin AssociateThreads(St, utid1, utid2).st.dchecks
  /\ \A pid \in Pids, ppid \in Opt(Pids) :
       "Resolve:parent_upid_conflict"
         \notin SetProcessMetadata(St, pid, ppid, kNullStringId).st.dchecks

\* C26  no process is its own parent: parent_upid of UPID P is never P, and
\* no UpdateThread or AssociateThreads call made from a reachable state
\* fails the assertion of ResolvePendingAssociations that the child of a
\* pending parent entry is not the process being propagated.
NoProcessIsItsOwnParent ==
  /\ \A upid \in Upids(St) : Proc(St, upid).parent_upid # Some(upid)
  /\ \A tid \in Tids, pid \in Pids :
       "Resolve:child_is_parent" \notin UpdateThread(St, tid, pid).st.dchecks
  /\ \A utid1 \in Utids(St), utid2 \in Utids(St) :
       "Resolve:child_is_parent"
         \notin AssociateThreads(St, utid1, utid2).st.dchecks

\* A thread that IsThreadAlive reports dead before a step is reported dead
\* after it, and neither GetThreadOrNull returns it.
ThreadDeathIsPermanentStep(s, s2) ==
  \A utid \in Utids(s) :
    ~IsThreadAlive(s, utid)
      => /\ ~IsThreadAlive(s2, utid)
         /\ \A tid \in Tids : GetThreadOrNull(s2, tid).ret # Some(utid)
         /\ \A tid \in Tids, pid \in Pids :
              GetThreadOrNull2(s2, tid, Some(pid)).ret # Some(utid)

\* C27  thread death is permanent: once IsThreadAlive(u) is false it stays
\* false over every later call, and no GetThreadOrNull call returns u.
ThreadDeathIsPermanent == [][ThreadDeathIsPermanentStep(St, St')]_vars

\* C28  UpdateThread returns a thread of the registered process: after
\* UpdateThread(tid, pid) returns u, pids has an entry for pid and it is the
\* upid of u.
UpdateThreadReturnsRegisteredProcess ==
  \A tid \in Tids, pid \in Pids :
    LET r == UpdateThread(St, tid, pid)
    IN /\ pid \in DOMAIN r.st.pids
       /\ Thr(r.st, r.ret).upid = Some(r.st.pids[pid])

\* The alive main threads of a process.
AliveMainThreads(s, upid) ==
  {utid \in Utids(s) : /\ IsThreadAlive(s, utid)
                       /\ Thr(s, utid).upid = Some(upid)
                       /\ Thr(s, utid).is_main_thread = Some(TRUE)}

\* C29  one main thread: every UPID has at most one alive thread bound to
\* it with is_main_thread true.
AtMostOneAliveMainThread ==
  \A upid \in Upids(St) : Cardinality(AliveMainThreads(St, upid)) <= 1

\* How many times e occurs in the sequence v.
EntryCount(v, e) == Cardinality({i \in 1..Len(v) : v[i] = e})

\* The state in which ResolvePendingAssociations(utid, upid) is called: the
\* thread is bound to upid, by the caller if it was not bound.
ResolveCall(s, utid, upid) ==
  ResolvePendingAssociations(
    IF Bound(s, utid) THEN s ELSE AssociateThreadToProcess(s, utid, upid),
    utid, upid)

\* ResolvePendingAssociations(utid, upid) removes from s the entries of
\* pending_assocs that contain a thread chained to utid and the entries of
\* pending_parent_assocs whose parent is such a thread, and keeps the others
\* as many times as they occur.
ResolveRemovesExactly(s, utid, upid) ==
  LET r == ResolveCall(s, utid, upid)
      reached == Chained(s, {utid})
  IN /\ \A a \in Utids(s), b \in Utids(s) :
          EntryCount(r.pending_assocs, <<a, b>>) =
            IF a \in reached \/ b \in reached THEN 0
            ELSE EntryCount(s.pending_assocs, <<a, b>>)
     /\ \A a \in Utids(s), c \in Upids(s) :
          EntryCount(r.pending_parent_assocs, <<a, c>>) =
            IF a \in reached THEN 0
            ELSE EntryCount(s.pending_parent_assocs, <<a, c>>)

\* C30  ResolvePendingAssociations(u, upid), called for a thread bound to
\* upid, returns for every content of the two buffers, removes exactly the
\* entries of the threads chained to u and keeps the others, and does not
\* fail its assertion that the other thread of an entry is not the thread
\* being resolved, in any UpdateThread or AssociateThreads call.
ResolveTerminatesAndRemovesExactly ==
  /\ \A tid \in Tids, pid \in Pids :
       "Resolve:self_association" \notin UpdateThread(St, tid, pid).st.dchecks
  /\ \A utid1 \in Utids(St), utid2 \in Utids(St) :
       "Resolve:self_association"
         \notin AssociateThreads(St, utid1, utid2).st.dchecks
  /\ \A utid \in Utids(St), upid \in Upids(St) :
       (Bound(St, utid) => Thr(St, utid).upid = Some(upid))
         => ResolveRemovesExactly(St, utid, upid)

\* C31  a resolved thread belongs to the process asked for: when
\* ResolveNamespacedTid(root_pid, id) returns a root tid other than
\* root_pid, the entry of that tid in namespaced_threads names root_pid as
\* its process; and no thread scanned fails the assertion that its nstid is
\* longer than the innermost depth of the process.
ResolvedThreadBelongsToProcess ==
  \A root_pid \in 0..MaxNsPid, id \in LocalIds :
    \A r \in ResolveNamespacedTid(St, root_pid, id) :
      /\ "ResolveNamespacedTid:nstid_size" \notin r.st.dchecks
      /\ (HasValue(r.ret) /\ Value(r.ret) # root_pid)
           => /\ Value(r.ret) \in DOMAIN namespaced_threads
              /\ namespaced_threads[Value(r.ret)].pid = root_pid

\* C32  the process is named after its main thread: when
\* UpdateThreadNameAndMaybeProcessName(tid, name, priority) has named a
\* thread that is bound to a process whose pid is tid, the name of that
\* process is the name of the thread; a call that leaves the thread name
\* as it was leaves the process name as it was.
ProcessNameIsMainThreadName ==
  \A tid \in Tids, name \in Names, p \in Priorities :
    LET n == UpdateThreadName(St, tid, name, p)
        r == UpdateThreadNameAndMaybeProcessName(St, tid, name, p)
        utid == n.ret
    IN (Bound(r.st, utid) /\ Proc(r.st, Value(Thr(r.st, utid).upid)).pid = tid)
         => LET upid == Value(Thr(r.st, utid).upid)
            IN /\ Proc(r.st, upid).name = Thr(r.st, utid).name
               /\ (utid \in Utids(St) /\ Thr(r.st, utid).name = Thr(St, utid).name)
                    => Proc(r.st, upid).name = Proc(St, upid).name

====
